---- MODULE Spec2Model ----
(***************************************************************************)
(* The fleet orchestrator of src/server/Master.ts: the worker pool         *)
(* supervisor (fork, WORKER_READY, exit/restart), the polling loop         *)
(* (setInterval -> fetchLobbies -> schedulePublicGame) and the cached      *)
(* public-lobby listing.                                                   *)
(*                                                                         *)
(* One action is one macrotask of the Node event loop (an IPC message, a   *)
(* process exit, a timer tick, the arrival of an HTTP answer) together     *)
(* with the promise continuations it makes runnable: the continuation of   *)
(* `await Promise.all` and the `.then` callback of the tick run in the     *)
(* microtasks of the macrotask that settles the cycle's last query.        *)
(*                                                                         *)
(* Optional JavaScript values are sequences: <<>> is undefined, <<v>> is   *)
(* the value v.                                                            *)
(***************************************************************************)
EXTENDS Integers, Sequences, FiniteSets, TLC

VARIABLES
    ADMIN_TOKEN,          \* the secret of line 78
    workers,              \* live worker processes: [pid, WORKER_ID, ADMIN_TOKEN, sent]
    forks,                \* number of cluster.fork calls so far (the next pid)
    msgs,                 \* IPC messages sent by workers and not yet handled
    readyWorkers,         \* line 16
    signalled,            \* history: indices whose worker has sent WORKER_READY
    timers,               \* number of setInterval timers started (line 108)
    publicLobbyIDs,       \* line 64, a Set in insertion order
    publicLobbiesJsonStr, \* line 62
    cycles,               \* fetchLobbies calls awaiting Promise.all, oldest first
    creates,              \* create_game POSTs in flight (by gameID)
    nextID,               \* the next ID generateID returns
    everQueried,          \* history: a status GET has been issued
    everPosted,           \* history: a create POST has been issued
    calls,                \* history: the outbound calls issued, [method, gameID, port]
    createsDone,          \* history: the create POSTs that have settled, [gameID, ok]
    dropped,              \* history: IDs deleted, their create POST still in flight,
                          \* on an answer of the worker that was no JSON
    last,                 \* the event of the step that led to this state
    req,                  \* an inbound HTTP request (line 225)
    res,                  \* its response as written so far
    proxyReq,             \* the upstream request of the HTTP relay (line 254)
    proxyRes,             \* the upstream response (line 254)
    upgradeReq,           \* an inbound Upgrade request with its head bytes (line 152)
    socket,               \* the client socket of the Upgrade request (line 152)
    upgradeProxyReq,      \* the upstream request of the upgrade relay (line 168)
    proxySocket           \* the worker socket of the upgrade relay (line 176)

supVars  == <<ADMIN_TOKEN, workers, forks, msgs, readyWorkers, signalled, timers>>
loopVars == <<publicLobbyIDs, publicLobbiesJsonStr, cycles, creates, nextID,
              everQueried, everPosted, calls, createsDone,
              dropped>>
httpVars == <<req, res, proxyReq, proxyRes>>
wsVars   == <<upgradeReq, socket, upgradeProxyReq, proxySocket>>
proxyVars == <<httpVars, wsVars>>
vars     == <<supVars, loopVars, last, proxyVars>>

(* ------------------------------ bounds --------------------------------- *)
NumWorkers == 2
MaxRestarts == 1
MaxCycles == 1
MaxIDs == 3
MaxUrlLen == 6
MaxBytes == 2
MaxOverlap == 2

MaxForks == NumWorkers + MaxRestarts
Indices  == 0 .. (NumWorkers - 1)
IDs      == 1 .. MaxIDs
MaxTracked == MaxIDs - 1
Tokens   == {"a3f1"}
Times    == {0, 50}

(* --------------------------- program constants ------------------------- *)
StartThreshold == 250
BaseWorkerPort == 3001

(* ------------------------------ helpers -------------------------------- *)
Undefined == <<>>
Defined(v) == v # <<>>

\* JavaScript's !v for a value that is undefined or a number.
Falsy(v) == v = Undefined \/ v[1] = 0

SeqToSet(s) == {s[i] : i \in 1 .. Len(s)}

\* Set.prototype.add on an insertion-ordered set.
SetAdd(s, x) == IF x \in SeqToSet(s) THEN s ELSE Append(s, x)

\* Set.prototype.delete on an insertion-ordered set; deleting undefined or a
\* value that is not a member changes nothing.
SetDelete(s, x) == SelectSeq(s, LAMBDA y : <<y>> # x)

RemoveAt(s, k) == [i \in 1 .. (Len(s) - 1) |-> IF i < k THEN s[i] ELSE s[i + 1]]

NoEvent == [kind |-> "none"]

(* --------------------------- the supervisor ---------------------------- *)
\* cluster.fork({WORKER_ID, ADMIN_TOKEN}): the new process and its environment.
Fork(pid, workerId, token) ==
    [pid |-> pid, WORKER_ID |-> workerId, ADMIN_TOKEN |-> token, sent |-> FALSE]

ForkWorkersFromOne(token) == {Fork(i + 1, i + 1, token) : i \in Indices}
\* The fork loop of startMaster.
ForkWorkers(token) == {Fork(i + 1, i, token) : i \in Indices}

AllReadyAny(rw) == Cardinality(rw) >= 1
\* readyWorkers.size === config.numWorkers()
AllReady(rw) == Cardinality(rw) = NumWorkers

\* A worker that has booted sends WORKER_READY with the index it was given.
WorkerReady(w) ==
    /\ w \in workers
    /\ ~w.sent
    /\ workers' = (workers \ {w}) \cup {[w EXCEPT !.sent = TRUE]}
    /\ msgs' = msgs \cup {[type |-> "WORKER_READY", workerId |-> w.WORKER_ID, pid |-> w.pid]}
    /\ signalled' = signalled \cup {w.WORKER_ID}
    /\ last' = NoEvent
    /\ UNCHANGED <<ADMIN_TOKEN, forks, readyWorkers, timers, loopVars, proxyVars>>

\* cluster.on("message")
OnMessage(m) ==
    /\ m \in msgs
    /\ msgs' = msgs \ {m}
    /\ IF m.type = "WORKER_READY"
       THEN /\ readyWorkers' = readyWorkers \cup {m.workerId}
            /\ IF AllReady(readyWorkers')
               THEN timers' = timers + 1
               ELSE timers' = timers
       ELSE UNCHANGED <<readyWorkers, timers>>
    /\ last' = NoEvent
    /\ UNCHANGED <<ADMIN_TOKEN, workers, forks, signalled, loopVars, proxyVars>>

\* What worker.process.env.WORKER_ID evaluates to in the exit handler: the
\* value fork was given for this process, or undefined when the process handle
\* does not carry it.
RecoveredIds(w) == {<<w.WORKER_ID>>, Undefined}

RestartIndexNext(workerId) == (workerId[1] + 1) % NumWorkers
\* Lines 134-137: the replacement is forked with the index that was recovered.
RestartIndex(workerId) == workerId[1]

ReadyAfterExitForget(ready, w) == ready \ {w.WORKER_ID}
\* Lines 122-143: the exit handler never touches readyWorkers (line 16); the
\* set has no delete or clear anywhere in the file.
ReadyAfterExit(ready, w) == ready

RestartedDefaultZero(workerId, pid, token) ==
    {Fork(pid, IF workerId = Undefined THEN 0 ELSE workerId[1], token)}
\* Lines 124-137: what the exit handler forks: nothing when !workerId, else one
\* replacement with the recovered index and the startup secret.
Restarted(workerId, pid, token) ==
    IF Falsy(workerId) THEN {} ELSE {Fork(pid, RestartIndex(workerId), token)}

\* cluster.on("exit"); code and signal are only logged.
OnExit(w) ==
    /\ w \in workers
    /\ \E workerId \in RecoveredIds(w) :
         LET forked == Restarted(workerId, forks + 1, ADMIN_TOKEN)
         IN /\ forks + Cardinality(forked) <= MaxForks
            /\ workers' = (workers \ {w}) \cup forked
            /\ forks' = forks + Cardinality(forked)
            /\ last' = [kind |-> "exit", exited |-> w, workerId |-> workerId,
                        forked |-> forked]
    /\ readyWorkers' = ReadyAfterExit(readyWorkers, w)
    /\ UNCHANGED <<ADMIN_TOKEN, msgs, signalled, timers, loopVars, proxyVars>>

(* ------------------------- the routing function ----------------------- *)
\* config.workerIndex: a fixed derivation of the game ID, reduced modulo the
\* pool size.
WorkerIndex(gameID) == gameID % NumWorkers

\* config.workerPort(gameID): the port of the worker the ID is routed to.
ConfigWorkerPort(gameID) == BaseWorkerPort + WorkerIndex(gameID)

\* Line 276: the port a status query is addressed to.
QueryPort(gameID) == ConfigWorkerPort(gameID)

CreatePortFirstWorker(gameID) == BaseWorkerPort
\* Line 352: the port the create POST is addressed to.
CreatePort(gameID) == ConfigWorkerPort(gameID)

\* One outbound call of the polling loop.
Call(method, gameID, port) == [method |-> method, gameID |-> gameID, port |-> port]

(* ------------------------- the worker's answers ------------------------ *)
\* A GameInfo document as GET /api/game/{id} returns it.
GI(status, gameID, clients, gameConfig, msUntilStart) ==
    [status |-> status,
     gi |-> [gameID |-> gameID, clients |-> clients, gameConfig |-> gameConfig,
             msUntilStart |-> msUntilStart]]

Cfg(maxPlayers) == <<[maxPlayers |-> maxPlayers]>>

\* The answers a worker may give for lobby id: clients is the length of the
\* clients array, msUntilStart the absolute start time.
Bodies(id) ==
    { GI(200, <<id>>, <<1>>, Cfg(<<2>>), <<301>>),
      GI(200, <<id>>, Undefined, Cfg(<<2>>), <<301>>),
      GI(200, <<id>>, <<1>>, Cfg(Undefined), <<301>>),
      GI(200, <<id>>, <<1>>, Undefined, <<301>>),
      GI(200, <<id>>, <<1>>, Cfg(<<2>>), <<300>>),
      GI(200, <<id>>, <<1>>, Cfg(<<2>>), Undefined),
      GI(200, <<id>>, Undefined, Undefined, Undefined),
      GI(200, <<id>>, <<2>>, Cfg(<<2>>), <<301>>),
      GI(200, <<id>>, <<2>>, Cfg(<<2>>), <<300>>),
      GI(200, <<id>>, <<2>>, Undefined, <<301>>),
      GI(404, Undefined, Undefined, Undefined, Undefined),
      GI(404, <<id>>, <<1>>, Cfg(<<2>>), <<301>>) }

Pending == [st |-> "pending"]
\* The .catch handler's value (line 289).
Null == [st |-> "null"]
\* resp.json() of an answer with a JSON body, whatever its status (lines 281-284).
Json(b) == [st |-> "json", status |-> b.status, gi |-> b.gi]

\* What the promise of one status query settles to.
Outcomes(gameID) == {Null} \cup {Json(b) : b \in Bodies(gameID)}

\* Why a status query fails: the worker cannot be reached or does not answer
\* within the 5 s of line 275, or it answers with a body that is no JSON.
Failures == {"unreachable", "unparsable"}

\* The ways one status query settles: the value of its promise and the cause.
Settles(gameID) ==
    {[r |-> Null, why |-> w] : w \in Failures}
        \cup {[r |-> o, why |-> "answered"] : o \in Outcomes(gameID) \ {Null}}

(* ----------------------------- fetchLobbies ---------------------------- *)
LobbyInfoAbsoluteStart(gi, now) ==
    [gameID |-> gi.gameID,
     numClients |-> IF Defined(gi.clients) THEN gi.clients[1] ELSE 0,
     gameConfig |-> gi.gameConfig,
     msUntilStart |-> IF Defined(gi.msUntilStart) THEN gi.msUntilStart[1] ELSE now]
\* Lines 301-307: the snapshot derived from one answer.
LobbyInfo(gi, now) ==
    [gameID |-> gi.gameID,
     numClients |-> IF Defined(gi.clients) THEN gi.clients[1] ELSE 0,
     gameConfig |-> gi.gameConfig,
     msUntilStart |-> (IF Defined(gi.msUntilStart) THEN gi.msUntilStart[1] ELSE now) - now]

\* Lines 299-308: filter the nulls, map the rest.
LobbyInfos(results, now) ==
    LET ok == SelectSeq(results, LAMBDA r : r.st # "null")
    IN [i \in 1 .. Len(ok) |-> LobbyInfo(ok[i].gi, now)]

StartsSoonInverted(l) == l.msUntilStart >= StartThreshold
\* Lines 311-315.
StartsSoon(l) == l.msUntilStart <= StartThreshold

\* Lines 320-328.
IsFull(l) ==
    /\ Defined(l.gameConfig)
    /\ Defined(l.gameConfig[1].maxPlayers)
    /\ l.gameConfig[1].maxPlayers[1] <= l.numClients

\* Lines 310-332: whether the forEach body deletes l.gameID.
Removes(l) == StartsSoon(l) \/ IsFull(l)

RECURSIVE ApplyRemoval(_, _)
\* Lines 310-332: lobbyInfos.forEach over the tracked set.
ApplyRemoval(tracked, infos) ==
    IF infos = <<>> THEN tracked
    ELSE ApplyRemoval(IF Removes(Head(infos)) THEN SetDelete(tracked, Head(infos).gameID)
                      ELSE tracked,
                      Tail(infos))

\* Lines 335-337: JSON.stringify({lobbies: lobbyInfos}); a key whose value is
\* undefined is left out of the text, here kept as <<>>.
JSONStringify(infos) == [doc |-> "object", lobbies |-> infos]

OnQueryFailedKeep(tracked, gameID) == tracked
OnQueryFailedClear(tracked, gameID) == <<>>
\* Lines 285-290: the .catch handler of one query.
OnQueryFailed(tracked, gameID) == SetDelete(tracked, <<gameID>>)

ListingAfterSettlePartial(listing, infos) == JSONStringify(infos)
\* Lines 281-290: the handlers of one query do not write the cached listing.
ListingAfterSettle(listing, infos) == listing

ShouldScheduleAlways(lobbies) == lobbies >= 0
ShouldScheduleNever(lobbies) == lobbies < 0
\* Line 111.
ShouldSchedule(lobbies) == lobbies = 0

AllSettled(results) == \A i \in 1 .. Len(results) : results[i].st # "pending"

ReturnedListed(kept, infos) == Len(infos)
\* Line 339: fetchLobbies returns the size of the tracked set as it is when
\* the cycle ends, not the number of lobbies this cycle heard of.
ReturnedSize(kept, infos) == Len(kept)

\* A cycle finishes: those started before it and still pending have been
\* overtaken by it.
Overtake(pending, c) ==
    [k \in 1 .. Len(pending) |->
        IF k < c THEN [pending[k] EXCEPT !.overtaken = TRUE] ELSE pending[k]]

\* The rest of fetchLobbies after Promise.all (lines 296-339), then the tick's
\* .then callback (lines 110-114) and schedulePublicGame up to its POST
\* (lines 344-361). tracked is publicLobbyIDs when the continuation runs, rest
\* the cycles left pending, overtaken whether a cycle started later has
\* finished before this one.
CompleteCycle(snap, results, tracked, rest, overtaken) ==
    \E now \in Times :
      LET infos == LobbyInfos(results, now)
          kept  == ApplyRemoval(tracked, infos)
          count == ReturnedSize(kept, infos)
          ev    == [kind |-> "cycle", snap |-> snap, results |-> results, now |-> now,
                    before |-> publicLobbyIDs, count |-> count,
                    overtaken |-> overtaken]
      IN /\ publicLobbiesJsonStr' = JSONStringify(infos)
         /\ cycles' = rest
         /\ IF ShouldSchedule(count)
            THEN /\ nextID <= MaxIDs
                 /\ publicLobbyIDs' = SetAdd(kept, nextID)
                 /\ creates' = creates \cup {nextID}
                 /\ nextID' = nextID + 1
                 /\ everPosted' = TRUE
                 /\ calls' = calls \cup {Call("POST", nextID, CreatePort(nextID))}
                 /\ last' = [ev EXCEPT !.kind = "cycle"] @@ [posted |-> <<nextID>>]
            ELSE /\ publicLobbyIDs' = kept
                 /\ UNCHANGED <<creates, nextID, everPosted, calls>>
                 /\ last' = ev @@ [posted |-> <<>>]
         /\ UNCHANGED createsDone

\* The interval callback (lines 108-116) and fetchLobbies up to its await
\* (lines 270-296), with at most maxCycles calls of fetchLobbies awaiting
\* their answers. With nothing tracked Promise.all([]) is already settled and
\* the whole cycle runs in this tick's microtasks.
TickWithin(maxCycles) ==
    /\ timers >= 1
    /\ IF publicLobbyIDs = <<>>
       THEN /\ CompleteCycle(<<>>, <<>>, publicLobbyIDs,
                             Overtake(cycles, Len(cycles) + 1), FALSE)
            /\ UNCHANGED everQueried
       ELSE /\ Len(cycles) < maxCycles
            /\ cycles' = Append(cycles,
                   [snap |-> publicLobbyIDs,
                    res |-> [i \in 1 .. Len(publicLobbyIDs) |-> Pending],
                    overtaken |-> FALSE])
            /\ everQueried' = TRUE
            /\ calls' = calls \cup {Call("GET", publicLobbyIDs[i], QueryPort(publicLobbyIDs[i])) :
                                      i \in 1 .. Len(publicLobbyIDs)}
            /\ last' = NoEvent
            /\ UNCHANGED <<publicLobbyIDs, publicLobbiesJsonStr, creates, nextID, everPosted,
                           createsDone>>
    /\ UNCHANGED <<supVars, dropped, proxyVars>>

Tick == TickWithin(MaxCycles)

\* One status query settles as s: the answer is parsed (lines 281-284), or the
\* fetch fails (network error, abort after 5 s, a body that is no JSON) and the
\* catch handler deletes the ID (lines 285-290). The last one to settle
\* resolves Promise.all.
QuerySettleAs(c, i, s) ==
    /\ cycles[c].res[i] = Pending
    /\ LET gameID  == cycles[c].snap[i]
           r       == s.r
           failed  == r = Null
           tracked == IF failed THEN OnQueryFailed(publicLobbyIDs, gameID)
                      ELSE publicLobbyIDs
           settled == [cycles[c].res EXCEPT ![i] = r]
       IN IF AllSettled(settled)
          THEN CompleteCycle(cycles[c].snap, settled, tracked,
                             Overtake(RemoveAt(cycles, c), c),
                             cycles[c].overtaken)
          ELSE /\ cycles' = [cycles EXCEPT ![c].res = settled]
               /\ publicLobbyIDs' = tracked
               /\ publicLobbiesJsonStr' =
                      ListingAfterSettle(publicLobbiesJsonStr,
                          LobbyInfos(SelectSeq(settled, LAMBDA x : x.st # "pending"), 0))
               /\ last' = NoEvent
               /\ UNCHANGED <<creates, nextID, everPosted, calls, createsDone>>
    /\ dropped' = IF /\ s.why = "unparsable"
                     /\ cycles[c].snap[i] \in SeqToSet(publicLobbyIDs)
                     /\ cycles[c].snap[i] \in creates
                  THEN dropped \cup {cycles[c].snap[i]}
                  ELSE dropped
    /\ UNCHANGED <<supVars, everQueried, proxyVars>>

QuerySettle(c, i) ==
    /\ c \in 1 .. Len(cycles)
    /\ i \in 1 .. Len(cycles[c].snap)
    /\ \E s \in Settles(cycles[c].snap[i]) : QuerySettleAs(c, i, s)

\* How the create POST settles (lines 351-365): a 2xx answer, an answer with
\* another status, or a rejected fetch.
CreateOutcomes == {"accepted", "rejected", "error"}

\* Lines 363-369: !response.ok throws, a rejected fetch throws.
CreateFailed(outcome) == outcome # "accepted"

OnCreateFailedForget(tracked, gameID) == SetDelete(tracked, <<gameID>>)
\* Lines 366-369: the catch block logs and rethrows; publicLobbyIDs is not
\* touched.
OnCreateFailed(tracked, gameID) == tracked

OnScheduleErrorUncaught(running) == 0
\* Lines 103-105: scheduleLobbies catches the rethrown error and logs it; the
\* interval timers keep running.
OnScheduleError(running) == running

\* The create POST settles (lines 351-369) with the given outcome.
CreateSettleAs(gameID, outcome) ==
    /\ gameID \in creates
    /\ creates' = creates \ {gameID}
    /\ publicLobbyIDs' = IF CreateFailed(outcome)
                         THEN OnCreateFailed(publicLobbyIDs, gameID)
                         ELSE publicLobbyIDs
    /\ timers' = IF CreateFailed(outcome) THEN OnScheduleError(timers) ELSE timers
    /\ createsDone' = createsDone \cup {[gameID |-> gameID, ok |-> ~CreateFailed(outcome)]}
    /\ last' = NoEvent
    /\ UNCHANGED <<ADMIN_TOKEN, workers, forks, msgs, readyWorkers, signalled,
                   publicLobbiesJsonStr, cycles, nextID, everQueried, everPosted, calls,
                   dropped, proxyVars>>

CreateSettle(gameID) == \E outcome \in CreateOutcomes : CreateSettleAs(gameID, outcome)

\* app.get("/api/public_lobbies") (lines 219-221): the response body is the
\* cached string.
GetPublicLobbies ==
    /\ last' = [kind |-> "get", body |-> publicLobbiesJsonStr]
    /\ UNCHANGED <<supVars, loopVars, proxyVars>>

(* ------------------------- worker-path routing ------------------------- *)
\* A URL is a sequence of characters.
Chars == {"/", "w", "0", "1", "?"}
URLs == {<<"/">> \o s : s \in UNION {[1 .. n -> Chars] : n \in 0 .. (MaxUrlLen - 1)}}

DigitChars == <<"0", "1", "2", "3", "4", "5", "6", "7", "8", "9">>
IsDigit(c) == \E d \in 1 .. Len(DigitChars) : DigitChars[d] = c
DigitValue(c) == (CHOOSE d \in 1 .. Len(DigitChars) : DigitChars[d] = c) - 1

\* The last position of the greedy \d+ whose first digit is at position k.
RECURSIVE DigitsEnd(_, _)
DigitsEnd(url, k) ==
    IF k + 1 <= Len(url) /\ IsDigit(url[k + 1]) THEN DigitsEnd(url, k + 1) ELSE k

\* url.match(/^\/w(\d+)(\/.*)?$/): undefined for null, else the two groups;
\* group 2 is undefined when it did not take part in the match.
Match(url) ==
    IF Len(url) >= 3 /\ url[1] = "/" /\ url[2] = "w" /\ IsDigit(url[3])
    THEN LET e == DigitsEnd(url, 3)
         IN IF e = Len(url)
            THEN <<[g1 |-> SubSeq(url, 3, e), g2 |-> Undefined]>>
            ELSE IF url[e + 1] = "/"
                 THEN <<[g1 |-> SubSeq(url, 3, e),
                         g2 |-> <<SubSeq(url, e + 1, Len(url))>>]>>
                 ELSE Undefined
    ELSE Undefined

RECURSIVE ParseInt(_)
\* parseInt of a string of decimal digits.
ParseInt(digits) ==
    IF digits = <<>> THEN 0
    ELSE 10 * ParseInt(SubSeq(digits, 1, Len(digits) - 1))
           + DigitValue(digits[Len(digits)])

RECURSIVE NumToStr(_)
\* The text of a non-negative integer in a template literal.
NumToStr(n) ==
    IF n < 10 THEN <<DigitChars[n + 1]>>
    ELSE NumToStr(n \div 10) \o <<DigitChars[(n % 10) + 1]>>

\* String.prototype.indexOf, positions from 1, 0 when absent.
IndexOf(s, c) ==
    IF \E k \in 1 .. Len(s) : s[k] = c
    THEN CHOOSE k \in 1 .. Len(s) : s[k] = c /\ \A j \in 1 .. (k - 1) : s[j] # c
    ELSE 0
Includes(s, c) == IndexOf(s, c) # 0

\* Lines 162-163 and 231-235.
WorkerPort(workerId) == BaseWorkerPort + workerId
\* match[2] || "/"
WorkerPath(m) == IF m.g2 = Undefined THEN <<"/">> ELSE m.g2[1]

\* options.path of the HTTP relay (lines 243 and 249-252).
OptionsPath(url, m) ==
    LET workerId == ParseInt(m.g1)
        path == <<"/", "w">> \o NumToStr(workerId) \o WorkerPath(m)
    IN IF Includes(url, "?")
       THEN path \o SubSeq(url, IndexOf(url, "?"), Len(url))
       ELSE path

(* ----------------------------- HTTP relay ------------------------------ *)
HostOf(port) == <<"localhost", port>>

\* The headers of an inbound request: Host, optionally a custom header and a
\* Content-Type.
ClientHeaders(custom, ctype) ==
    [n \in {"host"} \cup (IF custom THEN {"x-a"} ELSE {})
                    \cup (IF Defined(ctype) THEN {"content-type"} ELSE {}) |->
        IF n = "host" THEN <<"public", 3000>>
        ELSE IF n = "x-a" THEN <<"custom", 1>>
        ELSE ctype[1]]

Request(method, url, headers, body) ==
    [method |-> method, url |-> url, headers |-> headers, body |-> body,
     stream |-> body, handled |-> FALSE]

\* Bodies: none, a JSON text, a text that is no JSON.
RequestBodies == {<<>>, <<"{", "}">>, <<"x">>}
ContentTypes == {Undefined, <<"application/json">>, <<"text/plain">>}
SampleURLs == {<<"/", "w", "1", "/", "0">>, <<"/", "w", "1">>, <<"/", "0">>}

\* Every URL with a plain GET, and a few URLs with every method, header set
\* and body.
Requests ==
    {Request("GET", u, ClientHeaders(FALSE, Undefined), <<>>) : u \in URLs}
      \cup
    {Request(m, u, ClientHeaders(c, t), b) :
        m \in {"GET", "POST"}, u \in SampleURLs, c \in BOOLEAN,
        t \in ContentTypes, b \in RequestBodies}

NoRequest == Request("", <<>>, <<>>, <<>>)
NoResponse == [heads |-> <<>>, body |-> <<>>, ended |-> FALSE]

\* express.json() (lines 25 and 52): a request with Content-Type
\* application/json and a body is read to its end and parsed before next() is
\* called; a body that does not parse ends the chain with an error.
ExpressJson(r) ==
    IF "content-type" \in DOMAIN r.headers
         /\ r.headers["content-type"] = "application/json" /\ r.stream # <<>>
    THEN IF r.stream = <<"{", "}">>
         THEN [next |-> TRUE, stream |-> <<>>]
         ELSE [next |-> FALSE, stream |-> <<>>]
    ELSE [next |-> TRUE, stream |-> r.stream]

UpstreamHeadersKeepHost(headers, port) == headers
\* { ...req.headers, host: `localhost:${workerPort}` }
UpstreamHeaders(headers, port) ==
    [n \in DOMAIN headers \cup {"host"} |->
        IF n = "host" THEN HostOf(port) ELSE headers[n]]

\* proxyRes.statusCode || 500
StatusOr500(statusCode) == IF statusCode = 0 THEN 500 ELSE statusCode

HeadersSentNever(r) == FALSE
\* res.headersSent
HeadersSent(r) == r.heads # <<>>

\* A response produced by the orchestrator itself.
LocalResponse(statusCode, body) ==
    [heads |-> <<[statusCode |-> statusCode, headers |-> <<>>, from |-> "local"]>>,
     body |-> body, ended |-> TRUE]

\* The middleware chain for one request (lines 25-60) up to the proxy
\* middleware (lines 225-268): a request that is no worker route goes on to the
\* fallback route (lines 373-375).
HandleRequest ==
    /\ req # NoRequest
    /\ ~req.handled
    /\ LET parsed == ExpressJson(req)
           match  == Match(req.url)
       IN /\ req' = [req EXCEPT !.handled = TRUE, !.stream = parsed.stream]
          /\ IF ~parsed.next
             THEN /\ res' = LocalResponse(400, <<"e">>)
                  /\ proxyReq' = Undefined
             ELSE IF match = Undefined
             THEN /\ res' = LocalResponse(IF req.method = "GET" THEN 200 ELSE 404,
                                          <<"i">>)
                  /\ proxyReq' = Undefined
             ELSE LET workerId == ParseInt(match[1].g1)
                      workerPort == WorkerPort(workerId)
                  IN /\ proxyReq' =
                         <<[port |-> workerPort,
                            path |-> OptionsPath(req.url, match[1]),
                            method |-> req.method,
                            headers |-> UpstreamHeaders(req.headers, workerPort),
                            body |-> <<>>, ended |-> FALSE, errored |-> FALSE]>>
                     /\ res' = res
    /\ UNCHANGED <<proxyRes, wsVars, supVars, loopVars, last>>

\* req.pipe(proxyReq) (line 267): what is left of the request stream is written
\* to the upstream request, which is ended when the stream ends.
PipeRequestBody ==
    /\ Defined(proxyReq)
    /\ ~proxyReq[1].errored
    /\ ~proxyReq[1].ended
    /\ IF req.stream # <<>>
       THEN /\ proxyReq' = <<[proxyReq[1] EXCEPT !.body = Append(@, Head(req.stream))]>>
            /\ req' = [req EXCEPT !.stream = Tail(@)]
       ELSE /\ proxyReq' = <<[proxyReq[1] EXCEPT !.ended = TRUE]>>
            /\ req' = req
    /\ UNCHANGED <<res, proxyRes, wsVars, supVars, loopVars, last>>

\* The response callback of http.request (lines 254-257).
UpstreamResponse(statusCode, headers, body) ==
    /\ Defined(proxyReq)
    /\ ~proxyReq[1].errored
    /\ proxyRes = Undefined
    /\ proxyRes' = <<[statusCode |-> statusCode, headers |-> headers, stream |-> body]>>
    /\ res' = [res EXCEPT !.heads = Append(@, [statusCode |-> StatusOr500(statusCode),
                                               headers |-> headers,
                                               from |-> "upstream"])]
    /\ UNCHANGED <<req, proxyReq, wsVars, supVars, loopVars, last>>

\* proxyRes.pipe(res) (line 256).
PipeResponseBody ==
    /\ Defined(proxyRes)
    /\ ~proxyReq[1].errored
    /\ ~res.ended
    /\ IF proxyRes[1].stream # <<>>
       THEN /\ res' = [res EXCEPT !.body = Append(@, Head(proxyRes[1].stream))]
            /\ proxyRes' = <<[proxyRes[1] EXCEPT !.stream = Tail(@)]>>
       ELSE /\ res' = [res EXCEPT !.ended = TRUE]
            /\ proxyRes' = proxyRes
    /\ UNCHANGED <<req, proxyReq, wsVars, supVars, loopVars, last>>

\* proxyReq.on("error") (lines 259-264): the upstream connection fails, before
\* a response or while its body is streamed.
UpstreamError ==
    /\ Defined(proxyReq)
    /\ ~proxyReq[1].errored
    /\ ~res.ended
    /\ proxyReq' = <<[proxyReq[1] EXCEPT !.errored = TRUE]>>
    /\ IF ~HeadersSent(res)
       THEN res' = [heads |-> Append(res.heads, [statusCode |-> 502, headers |-> <<>>,
                                                 from |-> "local"]),
                    body |-> res.body \o <<"u">>, ended |-> TRUE]
       ELSE res' = res
    /\ UNCHANGED <<req, proxyRes, wsVars, supVars, loopVars, last>>

UpstreamStatuses == {200, 404}
UpstreamBodies == {<<>>, <<"o", "k">>}
WorkerHeaders == [n \in {"content-type"} |-> "text/plain"]

NextHttp ==
    \/ HandleRequest
    \/ PipeRequestBody
    \/ \E s \in UpstreamStatuses, b \in UpstreamBodies :
           UpstreamResponse(s, WorkerHeaders, b)
    \/ PipeResponseBody
    \/ UpstreamError

(* ---------------------------- upgrade relay ---------------------------- *)
NoUpgrade == [url |-> <<>>]
NoSocket == [state |-> "none"]

\* An Upgrade request: head holds the bytes that arrived with the request head.
UpgradeRequest(url, head) ==
    [url |-> url,
     headers |-> [n \in {"host", "upgrade", "sec-websocket-key"} |->
                     IF n = "host" THEN <<"public", 3000>>
                     ELSE IF n = "upgrade" THEN <<"websocket", 0>>
                     ELSE <<"key", 1>>],
     head |-> head, handled |-> FALSE]

\* The k-th byte a peer sends is the number k.
Heads == {<<>>, <<1>>}
UpgradeURLs == {u \in URLs : Len(u) <= MaxUrlLen - 2}
UpgradeRequests == {UpgradeRequest(u, h) : u \in UpgradeURLs, h \in Heads}

\* A connected socket. sent is what the peer has sent on it since the
\* handshake, inbox what has arrived and is not yet read, fin whether the
\* peer's FIN has arrived, written what the orchestrator has written to it.
OpenSocket(sent) ==
    [state |-> "open", sent |-> sent, inbox |-> <<>>, fin |-> FALSE,
     readableEnded |-> FALSE, writableEnded |-> FALSE, written |-> <<>>]

IsOpen(s) == s.state = "open"
Writable(s) == IsOpen(s) /\ ~s.writableEnded

\* socket.destroy()
Destroy(s) == IF IsOpen(s) THEN [s EXCEPT !.state = "destroyed"] ELSE s

\* socket.end(), as pipe calls it when its source ends: the socket is closed
\* once both directions have ended.
End(s) ==
    IF Writable(s)
    THEN IF s.readableEnded
         THEN [s EXCEPT !.writableEnded = TRUE, !.state = "destroyed"]
         ELSE [s EXCEPT !.writableEnded = TRUE]
    ELSE s

\* socket.write(chunk)
Write(s, item) == IF Writable(s) THEN [s EXCEPT !.written = Append(@, item)] ELSE s

Byte(b) == [kind |-> "byte", b |-> b]

AcceptTextFixed(accept) == "websocket"
\* ${proxyRes.headers["sec-websocket-accept"]}
AcceptText(accept) == IF Defined(accept) THEN accept[1] ELSE "undefined"

\* Lines 178-184.
SwitchingProtocols(accept) ==
    [kind |-> "head", statusCode |-> 101, upgrade |-> "websocket",
     connection |-> "Upgrade", accept |-> AcceptText(accept)]

Spliced == proxySocket # NoSocket

MatchAnyWorkerPrefix(url) ==
    IF Len(url) >= 3 /\ url[1] = "/" /\ url[2] = "w" /\ IsDigit(url[3])
    THEN <<[g1 |-> SubSeq(url, 3, DigitsEnd(url, 3)), g2 |-> Undefined]>>
    ELSE Undefined
\* url.match(/^\/w(\d+)(\/.*)?$/) of the upgrade handler (line 154).
UpgradeMatch(url) == Match(url)

\* server.on("upgrade") (lines 152-174 and 206).
OnUpgrade ==
    /\ upgradeReq # NoUpgrade
    /\ ~upgradeReq.handled
    /\ upgradeReq' = [upgradeReq EXCEPT !.handled = TRUE]
    /\ LET match == UpgradeMatch(upgradeReq.url)
       IN IF match = Undefined
          THEN /\ socket' = Destroy(socket)
               /\ upgradeProxyReq' = Undefined
          ELSE /\ socket' = socket
               /\ upgradeProxyReq' =
                     <<[port |-> WorkerPort(ParseInt(match[1].g1)),
                        path |-> upgradeReq.url, method |-> "GET",
                        headers |-> upgradeReq.headers,
                        state |-> "pending", accept |-> Undefined]>>
    /\ UNCHANGED <<proxySocket, httpVars, supVars, loopVars, last>>

\* proxyReq.on("upgrade") (lines 176-199): the worker has answered 101;
\* proxyHead holds the bytes that arrived with its head. Neither head nor
\* proxyHead is used.
UpstreamUpgrade(accept, proxyHead) ==
    /\ Defined(upgradeProxyReq)
    /\ upgradeProxyReq[1].state = "pending"
    /\ upgradeProxyReq' =
          <<[upgradeProxyReq[1] EXCEPT !.state = "upgraded", !.accept = accept]>>
    /\ socket' = Write(socket, SwitchingProtocols(accept))
    /\ proxySocket' = OpenSocket(proxyHead)
    /\ UNCHANGED <<upgradeReq, httpVars, supVars, loopVars, last>>

\* The worker answers the upgrade request with an ordinary response: no
\* listener is registered for it.
UpstreamPlainResponse ==
    /\ Defined(upgradeProxyReq)
    /\ upgradeProxyReq[1].state = "pending"
    /\ upgradeProxyReq' = <<[upgradeProxyReq[1] EXCEPT !.state = "responded"]>>
    /\ UNCHANGED <<upgradeReq, socket, proxySocket, httpVars, supVars, loopVars, last>>

\* proxyReq.on("error") (lines 201-204).
UpstreamRefuse ==
    /\ Defined(upgradeProxyReq)
    /\ upgradeProxyReq[1].state = "pending"
    /\ upgradeProxyReq' = <<[upgradeProxyReq[1] EXCEPT !.state = "failed"]>>
    /\ socket' = Destroy(socket)
    /\ UNCHANGED <<upgradeReq, proxySocket, httpVars, supVars, loopVars, last>>

\* The client sends its next byte.
ClientSend ==
    /\ upgradeReq # NoUpgrade
    /\ IsOpen(socket)
    /\ ~socket.fin
    /\ Len(socket.sent) < MaxBytes
    /\ socket' = [socket EXCEPT !.sent = Append(@, Len(@) + 1),
                                !.inbox = Append(@, Len(socket.sent) + 1)]
    /\ UNCHANGED <<upgradeReq, upgradeProxyReq, proxySocket, httpVars, supVars,
                   loopVars, last>>

\* The worker sends its next byte.
WorkerSend ==
    /\ IsOpen(proxySocket)
    /\ ~proxySocket.fin
    /\ Len(proxySocket.sent) < MaxBytes
    /\ proxySocket' = [proxySocket EXCEPT !.sent = Append(@, Len(@) + 1),
                                          !.inbox = Append(@, Len(proxySocket.sent) + 1)]
    /\ UNCHANGED <<upgradeReq, upgradeProxyReq, socket, httpVars, supVars,
                   loopVars, last>>

\* socket.pipe(proxySocket) (line 188): one chunk.
PipeToWorker ==
    /\ Spliced
    /\ IsOpen(socket)
    /\ socket.inbox # <<>>
    /\ Writable(proxySocket)
    /\ proxySocket' = Write(proxySocket, Byte(Head(socket.inbox)))
    /\ socket' = [socket EXCEPT !.inbox = Tail(@)]
    /\ UNCHANGED <<upgradeReq, upgradeProxyReq, httpVars, supVars, loopVars, last>>

\* proxySocket.pipe(socket) (line 187): one chunk.
PipeToClient ==
    /\ Spliced
    /\ IsOpen(proxySocket)
    /\ proxySocket.inbox # <<>>
    /\ Writable(socket)
    /\ socket' = Write(socket, Byte(Head(proxySocket.inbox)))
    /\ proxySocket' = [proxySocket EXCEPT !.inbox = Tail(@)]
    /\ UNCHANGED <<upgradeReq, upgradeProxyReq, httpVars, supVars, loopVars, last>>

\* The client closes its sending direction.
ClientFin ==
    /\ Spliced
    /\ IsOpen(socket)
    /\ ~socket.fin
    /\ socket' = [socket EXCEPT !.fin = TRUE]
    /\ UNCHANGED <<upgradeReq, upgradeProxyReq, proxySocket, httpVars, supVars,
                   loopVars, last>>

\* The worker closes its sending direction.
WorkerFin ==
    /\ IsOpen(proxySocket)
    /\ ~proxySocket.fin
    /\ proxySocket' = [proxySocket EXCEPT !.fin = TRUE]
    /\ UNCHANGED <<upgradeReq, upgradeProxyReq, socket, httpVars, supVars,
                   loopVars, last>>

\* "end" of the client socket: the pipe of line 188 ends the worker socket.
\* The client socket, accepted by the HTTP server, stays open for writing.
SocketEnd ==
    /\ Spliced
    /\ IsOpen(socket)
    /\ socket.fin
    /\ socket.inbox = <<>>
    /\ ~socket.readableEnded
    /\ socket' = IF socket.writableEnded
                 THEN [socket EXCEPT !.readableEnded = TRUE, !.state = "destroyed"]
                 ELSE [socket EXCEPT !.readableEnded = TRUE]
    /\ proxySocket' = End(proxySocket)
    /\ UNCHANGED <<upgradeReq, upgradeProxyReq, httpVars, supVars, loopVars, last>>

\* "end" of the worker socket: the pipe of line 187 ends the client socket.
\* The worker socket, opened by http.request, ends its own writing side and
\* closes.
ProxySocketEnd ==
    /\ IsOpen(proxySocket)
    /\ proxySocket.fin
    /\ proxySocket.inbox = <<>>
    /\ ~proxySocket.readableEnded
    /\ proxySocket' = [proxySocket EXCEPT !.readableEnded = TRUE,
                                          !.writableEnded = TRUE,
                                          !.state = "destroyed"]
    /\ socket' = End(socket)
    /\ UNCHANGED <<upgradeReq, upgradeProxyReq, httpVars, supVars, loopVars, last>>

\* socket.on("error") (lines 195-198): the client connection fails.
ClientReset ==
    /\ Spliced
    /\ IsOpen(socket)
    /\ socket' = Destroy(socket)
    /\ proxySocket' = Destroy(proxySocket)
    /\ UNCHANGED <<upgradeReq, upgradeProxyReq, httpVars, supVars, loopVars, last>>

\* proxySocket.on("error") (lines 190-193): the worker connection fails.
WorkerReset ==
    /\ IsOpen(proxySocket)
    /\ proxySocket' = Destroy(proxySocket)
    /\ socket' = Destroy(socket)
    /\ UNCHANGED <<upgradeReq, upgradeProxyReq, httpVars, supVars, loopVars, last>>

\* What a worker may answer the upgrade with.
Accepts == {<<"s3pP">>, Undefined}

NextWs ==
    \/ OnUpgrade
    \/ \E a \in Accepts, h \in Heads : UpstreamUpgrade(a, h)
    \/ UpstreamPlainResponse
    \/ UpstreamRefuse
    \/ ClientSend
    \/ WorkerSend
    \/ PipeToWorker
    \/ PipeToClient
    \/ ClientFin
    \/ WorkerFin
    \/ SocketEnd
    \/ ProxySocketEnd
    \/ ClientReset
    \/ WorkerReset

(* --------------------------- specifications ---------------------------- *)
\* No HTTP request is being relayed.
HttpIdle ==
    /\ req = NoRequest
    /\ res = NoResponse
    /\ proxyReq = Undefined
    /\ proxyRes = Undefined

\* No Upgrade request is being relayed.
WsIdle ==
    /\ upgradeReq = NoUpgrade
    /\ socket = NoSocket
    /\ upgradeProxyReq = Undefined
    /\ proxySocket = NoSocket

\* Module load (lines 16, 62, 64) and startMaster up to its handlers.
Init ==
    /\ ADMIN_TOKEN \in Tokens
    /\ workers = ForkWorkers(ADMIN_TOKEN)
    /\ forks = NumWorkers
    /\ msgs = {}
    /\ readyWorkers = {}
    /\ signalled = {}
    /\ timers = 0
    /\ publicLobbyIDs = <<>>
    /\ publicLobbiesJsonStr = [doc |-> "", lobbies |-> <<>>]
    /\ cycles = <<>>
    /\ creates = {}
    /\ nextID = 1
    /\ everQueried = FALSE
    /\ everPosted = FALSE
    /\ calls = {}
    /\ createsDone = {}
    /\ dropped = {}
    /\ last = NoEvent
    /\ HttpIdle
    /\ WsIdle

NextLoop ==
    \/ Tick
    \/ \E c \in 1 .. MaxCycles, i \in 1 .. (MaxTracked + 1) : QuerySettle(c, i)
    \/ \E gameID \in IDs : CreateSettle(gameID)
    \/ GetPublicLobbies

Next ==
    \/ \E w \in workers : WorkerReady(w)
    \/ \E m \in msgs : OnMessage(m)
    \/ \E w \in workers : OnExit(w)
    \/ NextLoop

Spec == Init /\ [][Next]_vars

\* The supervisor alone: the polling loop reads and writes none of its state.
NextSup ==
    \/ \E w \in workers : WorkerReady(w)
    \/ \E m \in msgs : OnMessage(m)
    \/ \E w \in workers : OnExit(w)

SpecSup == Init /\ [][NextSup]_vars

\* The polling loop from any content of the tracked set: the pool is ready,
\* one interval timer runs and publicLobbyIDs holds the IDs generated so far.
InitAgg ==
    /\ ADMIN_TOKEN \in Tokens
    /\ workers = {[w EXCEPT !.sent = TRUE] : w \in ForkWorkers(ADMIN_TOKEN)}
    /\ forks = NumWorkers
    /\ msgs = {}
    /\ readyWorkers = Indices
    /\ signalled = Indices
    /\ timers = 1
    /\ \E k \in 0 .. MaxTracked :
         /\ publicLobbyIDs = [i \in 1 .. k |-> i]
         /\ nextID = k + 1
         /\ everPosted = (k > 0)
         /\ calls = {Call("POST", i, CreatePort(i)) : i \in 1 .. k}
         /\ createsDone = {[gameID |-> i, ok |-> TRUE] : i \in 1 .. k}
    /\ dropped = {}
    /\ publicLobbiesJsonStr = [doc |-> "", lobbies |-> <<>>]
    /\ cycles = <<>>
    /\ creates = {}
    /\ everQueried = FALSE
    /\ last = NoEvent
    /\ HttpIdle
    /\ WsIdle

SpecAgg == InitAgg /\ [][NextLoop]_vars

\* The interval timer keeps ticking (lines 108-116) and the abort timer of a
\* status query (line 275) settles the query after 5 s at the latest. The
\* create POST (lines 351-361) is given no signal and no timer.
FairLoop ==
    /\ WF_vars(Tick)
    /\ \A c \in 1 .. MaxCycles, i \in 1 .. (MaxTracked + 1) : WF_vars(QuerySettle(c, i))

SpecAggFair == InitAgg /\ [][NextLoop]_vars /\ FairLoop

\* The polling loop right after pool-ready: one interval timer runs and
\* nothing is tracked yet.
InitLoop ==
    /\ ADMIN_TOKEN \in Tokens
    /\ workers = {[w EXCEPT !.sent = TRUE] : w \in ForkWorkers(ADMIN_TOKEN)}
    /\ forks = NumWorkers
    /\ msgs = {}
    /\ readyWorkers = Indices
    /\ signalled = Indices
    /\ timers = 1
    /\ publicLobbyIDs = <<>>
    /\ publicLobbiesJsonStr = [doc |-> "", lobbies |-> <<>>]
    /\ cycles = <<>>
    /\ creates = {}
    /\ nextID = 1
    /\ everQueried = FALSE
    /\ everPosted = FALSE
    /\ calls = {}
    /\ createsDone = {}
    /\ dropped = {}
    /\ last = NoEvent
    /\ HttpIdle
    /\ WsIdle

\* A tick may fire while up to MaxOverlap earlier calls of fetchLobbies still
\* await their answers: the interval is 100 ms, the query timeout 5 s.
TickOverlap == TickWithin(MaxOverlap)

NextOverlap ==
    \/ TickOverlap
    \/ \E c \in 1 .. MaxOverlap, i \in 1 .. (MaxTracked + 1) : QuerySettle(c, i)
    \/ \E gameID \in IDs : CreateSettle(gameID)
    \/ GetPublicLobbies

SpecOverlap == InitLoop /\ [][NextOverlap]_vars

\* Answers to the query for lobby id whose body names no lobby or another one:
\* the lobby is reported started, or full.
ForeignBodies(id) ==
    {GI(200, gameID, <<1>>, Cfg(<<2>>), <<300>>) :
        gameID \in {Undefined} \cup {<<other>> : other \in IDs \ {id}}}
      \cup {GI(200, gameID, <<2>>, Cfg(<<2>>), <<301>>) :
        gameID \in {Undefined} \cup {<<other>> : other \in IDs \ {id}}}

ForeignSettles(gameID) ==
    Settles(gameID) \cup {[r |-> Json(b), why |-> "answered"] : b \in ForeignBodies(gameID)}

\* A status query settles, the answer's gameID being whatever the worker put
\* into the body.
ForeignQuerySettle(c, i) ==
    /\ c \in 1 .. Len(cycles)
    /\ i \in 1 .. Len(cycles[c].snap)
    /\ \E s \in ForeignSettles(cycles[c].snap[i]) : QuerySettleAs(c, i, s)

NextForeign ==
    \/ Tick
    \/ \E c \in 1 .. MaxCycles, i \in 1 .. (MaxTracked + 1) : ForeignQuerySettle(c, i)
    \/ \E gameID \in IDs : CreateSettle(gameID)
    \/ GetPublicLobbies

\* The polling loop with workers whose bodies need not name the queried lobby.
SpecForeign == InitAgg /\ [][NextForeign]_vars

\* A healthy worker hosts the lobby it was asked to create: it reports it with
\* no clients (an empty array or none) and a start time far enough ahead.
HealthyAnswers(gameID) ==
    {[r |-> Json(GI(200, <<gameID>>, clients, gameConfig, msUntilStart)),
      why |-> "answered"] :
        clients \in {<<0>>, Undefined},
        gameConfig \in {Cfg(<<2>>), Undefined},
        msUntilStart \in {<<301>>, <<400>>}}

HealthyQuerySettle(c, i) ==
    /\ c \in 1 .. Len(cycles)
    /\ i \in 1 .. Len(cycles[c].snap)
    /\ \E s \in HealthyAnswers(cycles[c].snap[i]) : QuerySettleAs(c, i, s)

\* A healthy worker accepts the create call.
HealthyCreateSettle(gameID) == CreateSettleAs(gameID, "accepted")

NextHealthy ==
    \/ \E w \in workers : WorkerReady(w)
    \/ \E m \in msgs : OnMessage(m)
    \/ Tick
    \/ \E c \in 1 .. MaxCycles, i \in 1 .. (MaxTracked + 1) : HealthyQuerySettle(c, i)
    \/ \E gameID \in IDs : HealthyCreateSettle(gameID)
    \/ GetPublicLobbies

\* The timers fire, the healthy workers answer, and a client keeps asking for
\* the listing.
FairHealthy ==
    /\ WF_vars(Tick)
    /\ \A c \in 1 .. MaxCycles, i \in 1 .. (MaxTracked + 1) :
          WF_vars(HealthyQuerySettle(c, i))
    /\ WF_vars(GetPublicLobbies)

\* The orchestrator from module load with healthy workers.
SpecHealthy == Init /\ [][NextHealthy]_vars /\ FairHealthy

\* The orchestrator as one inbound HTTP request meets it: the supervisor and
\* the polling loop are as after module load.
InitHttp ==
    /\ ADMIN_TOKEN \in Tokens
    /\ workers = ForkWorkers(ADMIN_TOKEN)
    /\ forks = NumWorkers
    /\ msgs = {}
    /\ readyWorkers = {}
    /\ signalled = {}
    /\ timers = 0
    /\ publicLobbyIDs = <<>>
    /\ publicLobbiesJsonStr = [doc |-> "", lobbies |-> <<>>]
    /\ cycles = <<>>
    /\ creates = {}
    /\ nextID = 1
    /\ everQueried = FALSE
    /\ everPosted = FALSE
    /\ calls = {}
    /\ createsDone = {}
    /\ dropped = {}
    /\ last = NoEvent
    /\ req \in Requests
    /\ res = NoResponse
    /\ proxyReq = Undefined
    /\ proxyRes = Undefined
    /\ WsIdle

SpecHttp == InitHttp /\ [][NextHttp]_vars

\* The orchestrator as one inbound Upgrade request meets it.
InitWs ==
    /\ ADMIN_TOKEN \in Tokens
    /\ workers = ForkWorkers(ADMIN_TOKEN)
    /\ forks = NumWorkers
    /\ msgs = {}
    /\ readyWorkers = {}
    /\ signalled = {}
    /\ timers = 0
    /\ publicLobbyIDs = <<>>
    /\ publicLobbiesJsonStr = [doc |-> "", lobbies |-> <<>>]
    /\ cycles = <<>>
    /\ creates = {}
    /\ nextID = 1
    /\ everQueried = FALSE
    /\ everPosted = FALSE
    /\ calls = {}
    /\ createsDone = {}
    /\ dropped = {}
    /\ last = NoEvent
    /\ HttpIdle
    /\ upgradeReq \in UpgradeRequests
    /\ socket = OpenSocket(upgradeReq.head)
    /\ upgradeProxyReq = Undefined
    /\ proxySocket = NoSocket

SpecWs == InitWs /\ [][NextWs]_vars

\* The handlers and pipes of the orchestrator run when they can; what the
\* client and the worker do is up to them.
FairWs ==
    /\ WF_vars(OnUpgrade)
    /\ WF_vars(PipeToWorker)
    /\ WF_vars(PipeToClient)
    /\ WF_vars(SocketEnd)
    /\ WF_vars(ProxySocketEnd)

SpecWsFair == InitWs /\ [][NextWs]_vars /\ FairWs

(* ------------------------ the claims' vocabulary ----------------------- *)
CycleDone == last.kind = "cycle"
Tracked   == SeqToSet(publicLobbyIDs)
Listed    == publicLobbiesJsonStr.lobbies
Succeeded(r) == r.st = "json" /\ r.status \in 200 .. 299

\* The derived fields of section 4.3 of the specification.
TimeUntilStart(r, now) ==
    (IF Defined(r.gi.msUntilStart) THEN r.gi.msUntilStart[1] ELSE now) - now
ClientCount(r) == IF Defined(r.gi.clients) THEN r.gi.clients[1] ELSE 0
ReachedMax(r) ==
    /\ Defined(r.gi.gameConfig)
    /\ Defined(r.gi.gameConfig[1].maxPlayers)
    /\ ClientCount(r) >= r.gi.gameConfig[1].maxPlayers[1]
Joinable(r, now) ==
    Succeeded(r) /\ TimeUntilStart(r, now) > 250 /\ ~ReachedMax(r)
ListedAs(gameID) == \E k \in 1 .. Len(Listed) : Listed[k].gameID = gameID

\* The create call for gameID has been accepted, or has failed.
Accepted(gameID) == [gameID |-> gameID, ok |-> TRUE] \in createsDone
Orphaned(gameID) == [gameID |-> gameID, ok |-> FALSE] \in createsDone

(* -------------------------------- C1 ----------------------------------- *)
\* C1: the pool-ready event fires at most once per run: across any sequence of
\* WORKER_READY signals, exits and restarts the interval timer is started at
\* most once.
C1_PoolReadyAtMostOnce == timers <= 1

(* -------------------------------- C2 ----------------------------------- *)
\* C2: no status query and no create call is issued before every one of the
\* NumWorkers indices has sent WORKER_READY, in whatever order the signals
\* arrive; a second signal of one index does not stand for another index.
C2_NoCallBeforeAllReady ==
    (everQueried \/ everPosted \/ cycles # <<>> \/ creates # {}) => signalled = Indices

\* Calls have been issued in a run in which a restarted worker has signalled
\* ready a second time for its index.
C2_Witness ==
    /\ everQueried
    /\ everPosted
    /\ \E w \in workers : w.pid > NumWorkers /\ w.sent

(* -------------------------------- C3 ----------------------------------- *)
\* C3: for every index k, 0 included, an exit of the worker forked with
\* WORKER_ID k, whose index the handler finds in the process metadata, makes
\* the handler fork exactly one new worker with WORKER_ID k and the startup
\* secret.
C3_ExitForksSameIndex ==
    (last.kind = "exit" /\ last.workerId = <<last.exited.WORKER_ID>>) =>
        /\ Cardinality(last.forked) = 1
        /\ \A n \in last.forked :
             /\ n.WORKER_ID = last.exited.WORKER_ID
             /\ n.ADMIN_TOKEN = ADMIN_TOKEN
             /\ n \in workers

(* -------------------------------- C4 ----------------------------------- *)
\* C4: a tick whose aggregation cycle returns the count 0 issues exactly one
\* create POST, for an ID that is then tracked; a tick whose cycle returns a
\* nonzero count issues none.
C4_OneCreateIffZero ==
    CycleDone =>
        /\ Len(last.posted) = IF last.count = 0 THEN 1 ELSE 0
        /\ \A k \in 1 .. Len(last.posted) :
             /\ last.posted[k] \in creates
             /\ last.posted[k] \in Tracked
             /\ last.posted[k] \notin SeqToSet(last.before)

\* A cycle that queried a lobby returned 0 and its tick issued a create call.
C4_Witness ==
    /\ CycleDone
    /\ Len(last.snap) >= 1
    /\ last.count = 0
    /\ Len(last.posted) = 1

(* -------------------------------- C5 ----------------------------------- *)
\* The cycle over Len(snap) lobbies in which the query of index f failed and
\* every other query succeeded with a joinable lobby reporting its own ID.
C5_Case(f) ==
    /\ CycleDone
    /\ f \in 1 .. Len(last.snap)
    /\ last.results[f] = Null
    /\ \A j \in 1 .. Len(last.snap) : j # f =>
         /\ Joinable(last.results[j], last.now)
         /\ last.results[j].gi.gameID = <<last.snap[j]>>

\* C5: in a cycle over M tracked lobbies in which one status query fails and
\* the other M-1 succeed with joinable lobbies, the listing the cycle publishes
\* holds snapshots of exactly the other M-1 lobbies, the failed ID is no longer
\* tracked, and the cycle removes none of the other M-1 IDs from the tracked
\* set.
C5_AggregationIsolation ==
    \A f \in 1 .. MaxTracked + 1 :
      C5_Case(f) =>
        /\ publicLobbiesJsonStr.doc = "object"
        /\ Len(Listed) = Len(last.snap) - 1
        /\ \A j \in 1 .. Len(last.snap) : j # f =>
             /\ ListedAs(<<last.snap[j]>>)
             /\ (last.snap[j] \in SeqToSet(last.before) => last.snap[j] \in Tracked)
        /\ ~ListedAs(<<last.snap[f]>>)
        /\ last.snap[f] \notin Tracked

\* Such a cycle over at least two lobbies has finished and the others are
\* tracked and listed.
C5_Witness ==
    \E f \in 1 .. MaxTracked + 1 :
      /\ C5_Case(f)
      /\ Len(last.snap) >= 2
      /\ \A j \in 1 .. Len(last.snap) : j # f => last.snap[j] \in Tracked
      /\ Len(Listed) >= 1

(* -------------------------------- C6 ----------------------------------- *)
\* C6: a status query answered with a non-2xx status is a failed call whatever
\* the body: its lobby is removed from the tracked set and the listing of the
\* cycle holds entries of the 2xx answers only.
C6_Non2xxIsFailure ==
    CycleDone =>
        /\ \A i \in 1 .. Len(last.snap) :
             (last.results[i].st = "json" /\ ~Succeeded(last.results[i])) =>
                 last.snap[i] \notin Tracked
        /\ Len(Listed) =
             Cardinality({i \in 1 .. Len(last.snap) : Succeeded(last.results[i])})

(* -------------------------------- C7 ----------------------------------- *)
\* C7: a lobby whose derived time-until-start is <= 250 ms in a cycle is
\* removed from the tracked set by that cycle and is absent from the listing
\* the cycle serializes.
C7_StartedLobbyAbsent ==
    CycleDone =>
        \A i \in 1 .. Len(last.snap) :
          ( /\ Succeeded(last.results[i])
            /\ last.results[i].gi.gameID = <<last.snap[i]>>
            /\ TimeUntilStart(last.results[i], last.now) <= 250 ) =>
              /\ last.snap[i] \notin Tracked
              /\ ~ListedAs(<<last.snap[i]>>)

(* -------------------------------- C8 ----------------------------------- *)
\* C8: a lobby whose reported client count is >= its maxPlayers in a cycle is
\* removed from the tracked set by that cycle and is absent from the listing
\* the cycle serializes.
C8_FullLobbyAbsent ==
    CycleDone =>
        \A i \in 1 .. Len(last.snap) :
          ( /\ Succeeded(last.results[i])
            /\ last.results[i].gi.gameID = <<last.snap[i]>>
            /\ ReachedMax(last.results[i]) ) =>
              /\ last.snap[i] \notin Tracked
              /\ ~ListedAs(<<last.snap[i]>>)

(* -------------------------------- C9 ----------------------------------- *)
\* C9: a lobby whose status query succeeds with time-until-start > 250 ms and
\* a client count that has not reached maxPlayers is not removed from the
\* tracked set by the cycle and is listed with the reported gameID, numClients
\* the number of reported clients (0 when the field is absent), the reported
\* gameConfig and msUntilStart the reported start time minus the current time.
C9_JoinableKept ==
    CycleDone =>
        \A i \in 1 .. Len(last.snap) :
          Joinable(last.results[i], last.now) =>
            /\ (last.snap[i] \in SeqToSet(last.before) => last.snap[i] \in Tracked)
            /\ \E k \in 1 .. Len(Listed) :
                 Listed[k] = [gameID |-> last.results[i].gi.gameID,
                              numClients |-> ClientCount(last.results[i]),
                              gameConfig |-> last.results[i].gi.gameConfig,
                              msUntilStart |->
                                  last.results[i].gi.msUntilStart[1] - last.now]

\* A joinable lobby that reported no clients field is tracked and listed after
\* a cycle at a time other than 0.
C9_Witness ==
    /\ CycleDone
    /\ last.now > 0
    /\ \E i \in 1 .. Len(last.snap) :
         /\ Joinable(last.results[i], last.now)
         /\ ~Defined(last.results[i].gi.clients)
         /\ last.snap[i] \in Tracked
         /\ ListedAs(<<last.snap[i]>>)

(* -------------------------------- C10 ---------------------------------- *)
\* C10: GET /api/public_lobbies serves the cached listing as it is, and the
\* cached listing changes only in the step that finishes a cycle, all of whose
\* queries have settled, and then holds one entry for each answered query of
\* that cycle, in order, and nothing of the previous value.
C10_ListingIsCompleteCycle ==
    [][ /\ last'.kind = "get" =>
             last'.body = publicLobbiesJsonStr /\ UNCHANGED publicLobbiesJsonStr
        /\ publicLobbiesJsonStr' # publicLobbiesJsonStr =>
             /\ last'.kind = "cycle"
             /\ \A i \in 1 .. Len(last'.results) : last'.results[i].st # "pending"
             /\ LET answered == SelectSeq(last'.results, LAMBDA r : r.st = "json")
                IN /\ publicLobbiesJsonStr'.doc = "object"
                   /\ Len(publicLobbiesJsonStr'.lobbies) = Len(answered)
                   /\ \A k \in 1 .. Len(answered) :
                        publicLobbiesJsonStr'.lobbies[k].gameID = answered[k].gi.gameID
      ]_vars

\* A reader is served the listing of an earlier cycle while a cycle is part
\* answered, part pending.
C10_Witness ==
    /\ last.kind = "get"
    /\ last.body.doc = "object"
    /\ Len(last.body.lobbies) >= 1
    /\ \E c \in 1 .. Len(cycles) :
         /\ \E i \in 1 .. Len(cycles[c].res) : cycles[c].res[i].st = "json"
         /\ \E i \in 1 .. Len(cycles[c].res) : cycles[c].res[i] = Pending

(* -------------------------------- C11 ---------------------------------- *)
\* C11: every response of GET /api/public_lobbies, also one given before the
\* pool is ready or before the first cycle has finished, is a JSON document of
\* the form {lobbies: [...]}.
C11_ResponseIsListing == last.kind = "get" => last.body.doc = "object"

(* -------------------------------- C12 ---------------------------------- *)
\* The parts of a URL /w{i}{rest}[?{query}].
C12_Parts(url) ==
    LET e == DigitsEnd(url, 3)
        q == IndexOf(url, "?")
    IN [i |-> ParseInt(SubSeq(url, 3, e)),
        rest |-> SubSeq(url, e + 1, IF q = 0 THEN Len(url) ELSE q - 1),
        query |-> IF q = 0 THEN <<>> ELSE SubSeq(url, q, Len(url))]

\* C12: a request for /w{i}{rest}[?{query}] is relayed to the port of worker i
\* with the path /w{i}{rest} followed by the query string once and unchanged,
\* and by nothing when the URL has no query (an empty rest is relayed as /).
C12_QueryRelayedOnce ==
    Defined(proxyReq) =>
        LET p == C12_Parts(req.url)
        IN /\ proxyReq[1].port = BaseWorkerPort + p.i
           /\ proxyReq[1].path =
                  <<"/", "w">> \o NumToStr(p.i)
                     \o (IF p.rest = <<>> THEN <<"/">> ELSE p.rest) \o p.query

(* -------------------------------- C13 ---------------------------------- *)
\* C13: the upstream request of the HTTP relay has the method of the inbound
\* request and each of its headers unchanged, except Host, which is the
\* worker's host:port; the response head written to the caller is the
\* upstream's status code and headers, and no body byte is written before it.
C13_RelayMirrors ==
    Defined(proxyReq) =>
        /\ proxyReq[1].method = req.method
        /\ DOMAIN proxyReq[1].headers = DOMAIN req.headers \cup {"host"}
        /\ \A n \in DOMAIN proxyReq[1].headers :
             proxyReq[1].headers[n] =
                IF n = "host" THEN <<"localhost", proxyReq[1].port>> ELSE req.headers[n]
        /\ Defined(proxyRes) =>
             res.heads = <<[statusCode |-> proxyRes[1].statusCode,
                            headers |-> proxyRes[1].headers, from |-> "upstream"]>>
        /\ res.body # <<>> => res.heads # <<>>

\* A POST with a custom header has been relayed and the worker's 404 and its
\* body have been passed on.
C13_Witness ==
    /\ Defined(proxyReq)
    /\ req.method = "POST"
    /\ "x-a" \in DOMAIN req.headers
    /\ Defined(proxyRes)
    /\ proxyRes[1].statusCode = 404
    /\ res.body = <<"o", "k">>
    /\ res.ended

(* -------------------------------- C14 ---------------------------------- *)
\* C14: the body of a relayed request reaches the worker complete and
\* unmodified for every content type, application/json included.
C14_BodyReachesWorker ==
    (Defined(proxyReq) /\ (proxyReq[1].ended \/ req.stream = <<>>)) =>
        proxyReq[1].body = req.body

(* -------------------------------- C15 ---------------------------------- *)
\* C15: at most one response head is written per inbound request; an upstream
\* error before any response gives the caller a 502 with a payload, an error
\* after the upstream head was mirrored writes no further head.
C15_OneResponseHead ==
    /\ Len(res.heads) <= 1
    /\ (Defined(proxyReq) /\ proxyReq[1].errored) =>
         IF proxyRes = Undefined
         THEN /\ res.heads = <<[statusCode |-> 502, headers |-> <<>>, from |-> "local"]>>
              /\ res.body # <<>>
              /\ res.ended
         ELSE res.heads[1].from = "upstream"

\* The upstream connection has failed while the body of a mirrored response
\* was being streamed.
C15_Witness ==
    /\ Defined(proxyReq)
    /\ proxyReq[1].errored
    /\ Defined(proxyRes)
    /\ res.body # <<>>
    /\ ~res.ended

(* -------------------------------- C16 ---------------------------------- *)
IsPrefix(a, b) == Len(a) <= Len(b) /\ \A k \in 1 .. Len(a) : a[k] = b[k]

\* The bytes written to a socket, without the handshake head.
BytesWritten(s) ==
    LET bs == SelectSeq(s.written, LAMBDA x : x.kind = "byte")
    IN [k \in 1 .. Len(bs) |-> bs[k].b]

\* C16: once the upgrade has succeeded, what has been delivered to the worker
\* is, in order and without loss or duplication, the bytes the client sent after
\* its upgrade request, those that arrived with the request head included, and
\* what has been delivered to the client is likewise the bytes the worker sent
\* after its 101 response, those that arrived with the 101 head included.
C16_BytesRelayed ==
    Spliced =>
        /\ IsPrefix(BytesWritten(proxySocket), socket.sent)
        /\ IsPrefix(BytesWritten(socket), proxySocket.sent)

(* -------------------------------- C17 ---------------------------------- *)
\* C17: the first thing written to the client socket is the 101 response; it
\* is written only after the worker has answered the relayed upgrade with 101,
\* it carries the worker's Sec-WebSocket-Accept value, and every byte relayed
\* from the worker socket comes after it.
C17_HandshakeOrder ==
    (socket # NoSocket /\ socket.written # <<>>) =>
        /\ Defined(upgradeProxyReq)
        /\ upgradeProxyReq[1].state = "upgraded"
        /\ socket.written[1].kind = "head"
        /\ socket.written[1].statusCode = 101
        /\ Defined(upgradeProxyReq[1].accept) =>
             socket.written[1].accept = upgradeProxyReq[1].accept[1]
        /\ \A k \in 2 .. Len(socket.written) : socket.written[k].kind = "byte"

\* The 101 response with the worker's accept value and a relayed byte after it
\* have been written to the client.
C17_Witness ==
    /\ socket # NoSocket
    /\ Len(socket.written) >= 2
    /\ Defined(upgradeProxyReq[1].accept)
    /\ socket.written[2].kind = "byte"

(* -------------------------------- C18 ---------------------------------- *)
\* One side of a spliced relay has closed or failed.
C18_OneSideGone ==
    /\ Spliced
    /\ \/ socket.state = "destroyed"
       \/ socket.fin
       \/ proxySocket.state = "destroyed"
       \/ proxySocket.fin

\* C18: in a spliced relay, when the client socket or the worker socket closes
\* or errors, both sockets are eventually torn down.
C18_BothTornDown ==
    C18_OneSideGone ~> (socket.state = "destroyed" /\ proxySocket.state = "destroyed")

(* -------------------------------- C19 ---------------------------------- *)
\* The worker-path pattern /w{digits}[/...].
C19_IsWorkerPath(url) ==
    /\ Len(url) >= 3
    /\ url[1] = "/"
    /\ url[2] = "w"
    /\ \E e \in 3 .. Len(url) :
         /\ \A k \in 3 .. e : IsDigit(url[k])
         /\ e = Len(url) \/ url[e + 1] = "/"

\* C19: an Upgrade request whose URL does not match the worker-path pattern is
\* rejected by destroying the client socket: nothing is written to it and no
\* upstream request is made.
C19_NonWorkerUpgradeRejected ==
    ( /\ upgradeReq # NoUpgrade
      /\ upgradeReq.handled
      /\ ~C19_IsWorkerPath(upgradeReq.url) ) =>
        /\ socket.state = "destroyed"
        /\ socket.written = <<>>
        /\ upgradeProxyReq = Undefined
        /\ proxySocket = NoSocket

\* An Upgrade request for a URL that begins like a worker path but is none,
\* with bytes that arrived along with it, has been rejected.
C19_Witness ==
    /\ upgradeReq # NoUpgrade
    /\ upgradeReq.handled
    /\ Len(upgradeReq.url) >= 4
    /\ SubSeq(upgradeReq.url, 1, 3) = <<"/", "w", "1">>
    /\ ~C19_IsWorkerPath(upgradeReq.url)
    /\ upgradeReq.head # <<>>
    /\ socket.state = "destroyed"

(* -------------------------------- C20 ---------------------------------- *)
\* C20: no outbound call stays pending forever: every create POST in flight
\* and every status query in flight is eventually settled, and a status query
\* that has failed, by its timeout or otherwise, leaves its lobby untracked.
C20_CallsBounded ==
    /\ \A gameID \in IDs : (gameID \in creates) ~> (gameID \notin creates)
    /\ \A c \in 1 .. MaxCycles : (Len(cycles) >= c) ~> (Len(cycles) < c)
    /\ [](CycleDone =>
            \A i \in 1 .. Len(last.snap) :
               last.results[i] = Null => last.snap[i] \notin Tracked)

C22_EmptyLeadsToCreate ==
    (timers >= 1 /\ publicLobbyIDs = <<>>)
        ~> (CycleDone /\ last.posted # <<>> /\ publicLobbyIDs # <<>>)

\* A tick that found the tracked set empty has issued a create call.
C22_Witness ==
    /\ timers >= 1
    /\ CycleDone
    /\ last.before = <<>>
    /\ last.snap = <<>>
    /\ last.posted # <<>>
    /\ publicLobbyIDs = last.posted

(* -------------------------------- C23 ---------------------------------- *)
\* C23: end to end with healthy workers: after all workers of the pool have
\* reported ready, the first tick with 0 tracked lobbies schedules exactly one
\* lobby L1 on the worker the routing function gives for L1, and once that
\* worker reports L1 with no clients and a start more than 250 ms ahead, the
\* listing endpoint eventually returns a listing whose only entry is L1 with
\* numClients 0.
\* L1 is the first ID generateID returns.
C23_L1 == CHOOSE g \in IDs : \A h \in IDs : g <= h

C23_Reported(r, now) ==
    /\ Succeeded(r)
    /\ r.gi.gameID = <<C23_L1>>
    /\ ClientCount(r) = 0
    /\ TimeUntilStart(r, now) > 250

C24_NewestCyclePublishes == CycleDone => ~last.overtaken

(* -------------------------------- C25 ---------------------------------- *)
\* C25: overlapping poll ticks never each schedule a lobby for the same empty
\* period: in every reachable state the tracked set holds at most one ID,
\* because a create call is issued only when the tracked set is empty.
C25_AtMostOneTracked ==
    /\ Len(publicLobbyIDs) <= 1
    /\ (CycleDone /\ last.posted # <<>>) => publicLobbyIDs = last.posted

\* Two overlapping cycles both found their lobby gone: the first to finish
\* scheduled a new one, the second, finishing later, did not.
C25_Witness ==
    /\ CycleDone
    /\ last.overtaken
    /\ last.results = <<Null>>
    /\ last.posted = <<>>
    /\ Len(publicLobbyIDs) = 1
    /\ publicLobbyIDs[1] \notin SeqToSet(last.snap)

(* -------------------------------- C26 ---------------------------------- *)
\* C26: a lobby whose create call the worker accepts is not dropped from
\* tracking by a status query sent before the worker had registered it: an
\* accepted lobby is untracked only once the worker has reported it started
\* or full, or could not be reached, never because a query that was answered
\* while the create call was still in flight failed.
C26_AcceptedNotDroppedEarly ==
    \A gameID \in IDs : Accepted(gameID) => gameID \notin dropped

(* -------------------------------- C27 ---------------------------------- *)
\* C27: schedulePublicGame adds the freshly generated ID to the tracked set
\* before the create POST is sent, and a create call that fails (network error
\* or non-2xx answer) leaves the tracked set as it is, that ID included.
C27_TrackedBeforePostKeptOnFailure ==
    [][/\ \A gameID \in creates' \ creates :
            /\ gameID \notin SeqToSet(publicLobbyIDs)
            /\ gameID \in SeqToSet(publicLobbyIDs')
       /\ \A gameID \in IDs :
            ([gameID |-> gameID, ok |-> FALSE] \in createsDone' \ createsDone)
                => publicLobbyIDs' = publicLobbyIDs]_vars

\* A create call has failed and its ID is still tracked.
C27_Witness == \E gameID \in IDs : Orphaned(gameID) /\ gameID \in Tracked

(* -------------------------------- C28 ---------------------------------- *)
\* C28: an ID left tracked by a failed create call is removed from the tracked
\* set by the next aggregation cycle that queries it: the worker does not host
\* the lobby, so its query fails or is answered with a non-2xx status, and
\* after that cycle the ID is no longer tracked.
C28_NotHosted(r) == r = Null \/ (r.st = "json" /\ r.status \notin 200 .. 299)

C28_OrphanRemoved ==
    CycleDone =>
        \A i \in 1 .. Len(last.snap) :
            (Orphaned(last.snap[i]) /\ C28_NotHosted(last.results[i]))
                => last.snap[i] \notin Tracked

(* -------------------------------- C29 ---------------------------------- *)
\* C29: a scheduling failure never stops the polling loop: after a create call
\* was rejected or failed the interval timer is still running, and a later
\* tick whose cycle returns 0 issues a create call for a newly generated ID.
C29_LoopSurvivesFailure ==
    (\E failed \in IDs : Orphaned(failed)) =>
        /\ timers >= 1
        /\ (CycleDone /\ last.count = 0) =>
              /\ Len(last.posted) = 1
              /\ last.posted[1] \in creates
              /\ last.posted[1] \in Tracked
              /\ ~Orphaned(last.posted[1])
              /\ ~Accepted(last.posted[1])
              /\ last.posted[1] \notin SeqToSet(last.before)

\* After a failed create call a cycle returned 0 and a new lobby was scheduled.
C29_Witness ==
    /\ CycleDone
    /\ \E failed \in IDs : Orphaned(failed) /\ failed \in SeqToSet(last.snap)
    /\ last.count = 0
    /\ last.posted # <<>>

(* -------------------------------- C30 ---------------------------------- *)
\* C30: the removal checks are no-ops when their fields are absent: a lobby
\* whose status query succeeds with an answer that carries no start time and
\* no gameConfig.maxPlayers is not removed from the tracked set by the cycle
\* and is in the listing the cycle publishes.
C30_FieldsAbsent(r) ==
    /\ Succeeded(r)
    /\ r.gi.msUntilStart = Undefined
    /\ (r.gi.gameConfig = Undefined \/ r.gi.gameConfig[1].maxPlayers = Undefined)

C30_AbsentFieldsKept ==
    CycleDone =>
        \A i \in 1 .. Len(last.snap) :
            (/\ C30_FieldsAbsent(last.results[i])
             /\ last.results[i].gi.gameID = <<last.snap[i]>>
             /\ last.snap[i] \in SeqToSet(last.before))
                => /\ last.snap[i] \in Tracked
                   /\ ListedAs(<<last.snap[i]>>)

(* -------------------------------- C31 ---------------------------------- *)
\* C31: every ID queried by a cycle whose lobby is reported started or full is
\* removed from the tracked set by that cycle whatever gameID the body
\* carries, and the cycle's removal rules remove no ID other than the queried
\* ones so reported.
C31_ReportedGone(r, now) ==
    Succeeded(r) /\ (TimeUntilStart(r, now) <= 250 \/ ReachedMax(r))

C31_RemovalByQueriedID ==
    CycleDone =>
        /\ \A i \in 1 .. Len(last.snap) :
              C31_ReportedGone(last.results[i], last.now) => last.snap[i] \notin Tracked
        /\ \A gameID \in SeqToSet(last.before) \ Tracked :
              \E i \in 1 .. Len(last.snap) :
                  /\ last.snap[i] = gameID
                  /\ (last.results[i] = Null \/ C31_ReportedGone(last.results[i], last.now))

C33_PlainResponseAnswered ==
    (Defined(upgradeProxyReq) /\ upgradeProxyReq[1].state = "responded")
        ~> (\/ ~IsOpen(socket)
            \/ socket.writableEnded
            \/ socket.written # <<>>)

(* -------------------------------- C34 ---------------------------------- *)
\* C34: the HTTP relay and the upgrade relay open upstream connections only
\* to workers of the pool: the port of every upstream request is the port of
\* a worker index in [0, N).
C34_PoolPort(port) == \E i \in Indices : port = WorkerPort(i)

C34_UpstreamInPool ==
    /\ Defined(proxyReq) => C34_PoolPort(proxyReq[1].port)
    /\ Defined(upgradeProxyReq) => C34_PoolPort(upgradeProxyReq[1].port)

(* -------------------------------- C35 ---------------------------------- *)
\* C35: startMaster generates one secret and forks exactly N workers whose
\* WORKER_ID values are exactly 0 .. N-1, each index once, all given that same
\* secret: as long as none of them has exited, the live workers are N, their
\* indices are the N indices, and every worker carries the one secret.
C35_StartupForks ==
    /\ \A w \in workers : w.ADMIN_TOKEN = ADMIN_TOKEN
    /\ (forks = NumWorkers /\ Cardinality(workers) >= NumWorkers) =>
          /\ Cardinality(workers) = NumWorkers
          /\ {w.WORKER_ID : w \in workers} = Indices

\* The workers forked by startMaster are all alive and have reported ready.
C35_Witness ==
    /\ forks = NumWorkers
    /\ Cardinality(workers) = NumWorkers
    /\ \A w \in workers : w.sent
    /\ readyWorkers = Indices

(* -------------------------------- C36 ---------------------------------- *)
\* C36: in every reachable state there is at most one live worker process per
\* index and at most N live workers in total, across any sequence of worker
\* exits and restarts.
C36_OneWorkerPerIndex ==
    /\ \A w1 \in workers, w2 \in workers : w1.WORKER_ID = w2.WORKER_ID => w1 = w2
    /\ Cardinality(workers) <= NumWorkers

\* A worker has exited and has been replaced: the pool is full again.
C36_Witness ==
    /\ last.kind = "exit"
    /\ last.forked # {}
    /\ Cardinality(workers) = NumWorkers

(* -------------------------------- C37 ---------------------------------- *)
\* C37: when a worker exits and its index cannot be recovered from the
\* process metadata, the exit handler forks nothing; that pool slot stays lost
\* for good, a worker process appearing only as the replacement of an exited
\* worker whose index was recovered, with that index; and the orchestrator
\* keeps handling the exits of the workers that are left.
C37_LostSlotStaysLost ==
    /\ []((last.kind = "exit" /\ last.workerId = Undefined) =>
            /\ last.forked = {}
            /\ \A w \in workers : w.WORKER_ID # last.exited.WORKER_ID)
    /\ []((Cardinality(workers) < NumWorkers) => \A w \in workers : ENABLED OnExit(w))
    /\ [][\A n \in workers' :
            (n.pid \notin {w.pid : w \in workers}) =>
                /\ last'.kind = "exit"
                /\ last'.workerId = <<n.WORKER_ID>>
                /\ last'.exited.WORKER_ID = n.WORKER_ID
                /\ last'.exited \in workers]_vars

\* An exit whose index was not recovered has been handled, nothing was forked,
\* and the exit of a worker that is left can still be handled.
C37_Witness ==
    /\ last.kind = "exit"
    /\ last.workerId = Undefined
    /\ last.forked = {}
    /\ \E w \in workers : ENABLED OnExit(w)

(* -------------------------------- C38 ---------------------------------- *)
\* C38: the readiness set only grows: no step, a worker exit and a restart
\* included, removes an index from it.
C38_ReadyOnlyGrows == [][readyWorkers \subseteq readyWorkers']_vars

\* A worker that had reported ready has exited, with or without a restart, and
\* its index is still in the readiness set.
C38_Witness ==
    /\ last.kind = "exit"
    /\ last.exited.WORKER_ID \in readyWorkers

====
